---- MODULE Spec2Model ----
(***************************************************************************)
(* WingmanGPT: one command-line run that loads prompts.json, validates the *)
(* arguments, builds a prompt, asks the completion service, optionally     *)
(* asks the operator to confirm, and shells out to osascript.              *)
(*                                                                         *)
(* The repository holds two versions of the program:                       *)
(*   variant "src"        : src/src/__main__.py                            *)
(*   variant "WingmanGPT" : src/WingmanGPT/__main__.py                     *)
(* Both are modelled; `variant` says which file a run executes.            *)
(*                                                                         *)
(* Python strings whose characters matter are sequences of one-character   *)
(* strings.  An optional argument is a record [str, val]: str = FALSE is   *)
(* Python's None.                                                          *)
(***************************************************************************)
EXTENDS Integers, Sequences, FiniteSets, TLC

VARIABLES
    variant,            \* which __main__.py runs
    number, token, message, mode, noconfirm, confirm, show_modes,  \* argv
    token_file, message_file, prompts_json,                        \* files in cwd
    constructed,        \* WingmanGPT.__init__ returned
    phone_number, self_token, self_message, wants_to_confirm,
    prompt_data, mode_modification,                                \* fields
    validated,          \* the __get_* validators called so far, in order
    prompt,             \* PROMPT handed to chatbot.ask
    response,           \* local `response` of execute
    answer,             \* local `confirm` of execute (what input() returned)
    command,            \* the osascript command handed to subprocess.run
    ask_calls, input_calls, send_calls,                            \* call counts
    send_status,        \* how the automation command ended
    out,                \* lines printed, in order
    pc

vars == << variant, number, token, message, mode, noconfirm, confirm, show_modes,
           token_file, message_file, prompts_json, constructed, phone_number,
           self_token, self_message, wants_to_confirm, prompt_data,
           mode_modification, validated, prompt, response, answer, command,
           ask_calls, input_calls, send_calls, send_status, out, pc >>

----------------------------------------------------------------------------
(* Bounds and program constants *)

MaxAnswerLen == 2
PhoneLen == 10

----------------------------------------------------------------------------
(* Values *)

None == [str |-> FALSE, val |-> <<>>]
Str(s) == [str |-> TRUE, val |-> s]

DQ == "\""
SQ == "'"

\* s[1:-1]
Slice1(s) == IF Len(s) <= 2 THEN <<>> ELSE SubSeq(s, 2, Len(s) - 1)

RECURSIVE Join(_, _)
\* sep.join(parts), parts a sequence of strings
Join(sep, parts) ==
    IF Len(parts) = 0 THEN <<>>
    ELSE IF Len(parts) = 1 THEN parts[1]
    ELSE parts[1] \o sep \o Join(sep, Tail(parts))

\* iterating a Python str yields its characters as one-character strings
CharsOf(s) == [i \in 1..Len(s) |-> <<s[i]>>]

Line(text, detail) == [text |-> text, detail |-> detail]

Ok(v) == [ok |-> TRUE, val |-> v, err |-> <<>>]
Raise(e) == [ok |-> FALSE, val |-> <<>>, err |-> e]

----------------------------------------------------------------------------
(* Characters.  "U+0663" stands for the single character ARABIC-INDIC      *)
(* DIGIT THREE and "U+00B2" for SUPERSCRIPT TWO; str.isdigit() is True for *)
(* both, as it is for every character of Unicode category Nd or of         *)
(* Numeric_Type=Digit.                                                     *)

AsciiDigits == {"0", "1", "2", "3", "4", "5", "6", "7", "8", "9"}
UnicodeDigits == {"U+0663", "U+00B2"}

\* str.isdigit() on a one-character string
IsDigit(char) == char \in AsciiDigits \cup UnicodeDigits

\* str.lower(), character by character
LowerChar(c) ==
    CASE c = "Y" -> "y"
      [] c = "N" -> "n"
      [] c = "E" -> "e"
      [] c = "S" -> "s"
      [] OTHER -> c

Lower(s) == [i \in 1..Len(s) |-> LowerChar(s[i])]

----------------------------------------------------------------------------
(* Validators of WingmanGPT.__init__ *)

GetPhoneNumber(n) ==
    IF ~n.str \/ Len(n.val) # PhoneLen
    THEN Raise(<<"Invalid phone number">>)
    ELSE IF \E i \in 1..Len(n.val) : ~IsDigit(n.val[i])
    THEN Raise(<<"Invalid phone number">>)
    ELSE Ok(n.val)

\* a file of the working directory: absent, or its content
NoFile == [exists |-> FALSE, content |-> <<>>]
File(c) == [exists |-> TRUE, content |-> c]

GetToken(t, f) ==
    IF t.str /\ t.val # <<>> THEN Ok(t.val)
    ELSE IF f.exists /\ f.content # <<>> THEN Ok(f.content)
    ELSE Raise(<<"No token provided or found in token file">>)

GetMessage(m, f) ==
    IF m.str /\ m.val # <<>> THEN Ok(m.val)
    ELSE IF f.exists /\ f.content # <<>> THEN Ok(f.content)
    ELSE Raise(<<"No message provided or found in message.txt">>)

ModeNamesOf(modes) == {modes[i].NAME : i \in 1..Len(modes)}

RECURSIVE Keys(_)
\* keys of the dict built over `modes`, in insertion order: a name that
\* occurs again keeps the position of its first occurrence
Keys(modes) ==
    IF Len(modes) = 0 THEN <<>>
    ELSE LET front == SubSeq(modes, 1, Len(modes) - 1)
             last == modes[Len(modes)].NAME
         IN IF last \in ModeNamesOf(front) THEN Keys(front)
            ELSE Append(Keys(front), last)

\* available_modes[name]: the value written last for the key
Lookup(modes, name) ==
    LET idx == {i \in 1..Len(modes) : modes[i].NAME = name}
        j == CHOOSE i \in idx : \A k \in idx : k <= i
    IN modes[j].PROMPT_MODIFICATION

\* the names the "Invalid mode" exception text lists
ListedNames_nodedup(modes) == [i \in 1..Len(modes) |-> modes[i].NAME]

ListedNames(modes) == Keys(modes)

GetModeModification(pd, mode_str) ==
    IF ~mode_str.str \/ mode_str.val = ""
    THEN IF pd.DEFAULT_MODE \in ModeNamesOf(pd.MODES)
         THEN Ok(Lookup(pd.MODES, pd.DEFAULT_MODE))
         ELSE Raise(<<"KeyError", pd.DEFAULT_MODE>>)
    ELSE IF mode_str.val \notin ModeNamesOf(pd.MODES)
    THEN Raise(<<"Invalid mode", mode_str.val>> \o ListedNames(pd.MODES))
    ELSE Ok(Lookup(pd.MODES, mode_str.val))

----------------------------------------------------------------------------
(* prompts.json and its loader *)

NoPromptData == [PREFIX |-> <<>>, SUFFIX |-> <<>>, MODES |-> <<>>, DEFAULT_MODE |-> ""]

\* get_prompt_data (src) / WingmanGPT.__get_prompt_data (WingmanGPT).
\* f.missing is the set of keys the JSON document lacks.
GetPromptData(v, f) ==
    IF ~f.exists THEN Raise(<<"prompts.json does not exist">>)
    ELSE IF ~f.parses THEN Raise(<<"JSONDecodeError">>)
    ELSE IF v = "src" /\ Len(f.data.modes) > 0 /\ "description" \in f.missing
    THEN Raise(<<"KeyError", "description">>)
    ELSE IF v = "src" /\ "default_mode" \in f.missing
    THEN Raise(<<"KeyError", "default_mode">>)
    ELSE Ok([PREFIX |-> f.data.prefix,
             SUFFIX |-> f.data.suffix,
             MODES |-> [i \in 1..Len(f.data.modes) |->
                          [NAME |-> f.data.modes[i].name,
                           DESCRIPTION |-> IF v = "src" THEN f.data.modes[i].description
                                           ELSE "",
                           PROMPT_MODIFICATION |-> f.data.modes[i].modifier]],
             DEFAULT_MODE |-> IF v = "src" THEN f.data.default_mode ELSE "ROMANTIC"])

\* PromptData.show_modes
ShowModesLines(pd) ==
    <<Line("AVAILABLE MODES:", <<>>)>> \o
    [i \in 1..Len(pd.MODES) |-> Line("mode", <<pd.MODES[i].NAME, pd.MODES[i].DESCRIPTION>>)]

----------------------------------------------------------------------------
(* self.__wants_to_confirm *)

WantsToConfirm_flipped(v, nc, c) == IF v = "src" THEN nc ELSE TRUE

WantsToConfirm(v, nc, c) ==
    IF v = "src" THEN ~nc
    ELSE (IF ~c THEN TRUE ELSE c)

----------------------------------------------------------------------------
(* WingmanGPT.__init__: the validators in the order the code calls them.   *)
(* The result records which validators ran and the fields they set.        *)

Construct(v, n, nc, c, t, tf, m, mf, md, pd, pf) ==
    LET p == GetPhoneNumber(n)
        tk == GetToken(t, tf)
        ms == GetMessage(m, mf)
        \* src is handed prompt_data; WingmanGPT loads it here
        ld == IF v = "src" THEN Ok(pd) ELSE GetPromptData(v, pf)
        mm == GetModeModification(ld.val, md)
        base == [ok |-> FALSE, err |-> <<>>, validated |-> <<>>,
                 phone_number |-> <<>>, token |-> <<>>, message |-> <<>>,
                 prompt_data |-> NoPromptData, mode_modification |-> <<>>]
    IN IF ~p.ok THEN [base EXCEPT !.err = p.err, !.validated = <<"number">>]
       ELSE IF ~tk.ok THEN [base EXCEPT !.err = tk.err, !.validated = <<"number", "token">>]
       ELSE IF ~ms.ok
       THEN [base EXCEPT !.err = ms.err, !.validated = <<"number", "token", "message">>]
       ELSE IF ~ld.ok
       THEN [base EXCEPT !.err = ld.err, !.validated = <<"number", "token", "message">>]
       ELSE IF ~mm.ok
       THEN [base EXCEPT !.err = mm.err,
                         !.validated = <<"number", "token", "message", "mode">>]
       ELSE [ok |-> TRUE, err |-> <<>>,
             validated |-> <<"number", "token", "message", "mode">>,
             phone_number |-> p.val, token |-> tk.val, message |-> ms.val,
             prompt_data |-> ld.val, mode_modification |-> mm.val]

----------------------------------------------------------------------------
(* WingmanGPT.__get_prompt *)

HereIsTheMessage ==
    << " ", "H", "e", "r", "e", " ", "i", "s", " ", "t", "h", "e", " ",
       "m", "e", "s", "s", "a", "g", "e", ":", " ", DQ >>

HereIsHow ==
    << " ", "H", "e", "r", "e", " ", "i", "s", " ", "h", "o", "w", " ",
       "I", " ", "w", "a", "n", "t", " ", "y", "o", "u", " ", "t", "o",
       " ", "m", "o", "d", "i", "f", "y", " ", "t", "h", "e", " ", "m",
       "e", "s", "s", "a", "g", "e", ":", " ", DQ >>

GetPrompt(v, pd, msg, mm) ==
    IF v = "src"
    THEN Join(<<" ">>, CharsOf(pd.PREFIX))
         \o HereIsTheMessage \o msg \o <<DQ, ".">>
         \o HereIsHow \o mm \o <<DQ, ".">>
         \o Join(<<" ">>, CharsOf(pd.SUFFIX))
    ELSE pd.PREFIX
         \o HereIsTheMessage \o msg \o <<DQ, ".">>
         \o HereIsHow \o mm \o <<DQ, ".">>
         \o pd.SUFFIX

----------------------------------------------------------------------------
(* WingmanGPT.__send_message: shlex.quote and the command *)

\* the characters shlex.quote leaves alone: [A-Za-z0-9_@%+=:,./-]
SafeChars == AsciiDigits \cup
    {"a", "b", "e", "h", "i", "l", "o", "y", "_", "@", "%", "+", "=", ":", ",", ".", "/", "-"}

RECURSIVE ReplaceQuotes(_)
\* s.replace("'", "'\"'\"'")
ReplaceQuotes(s) ==
    IF Len(s) = 0 THEN <<>>
    ELSE (IF Head(s) = SQ THEN <<SQ, DQ, SQ, DQ, SQ>> ELSE <<Head(s)>>)
         \o ReplaceQuotes(Tail(s))

\* shlex.quote(s)
ShlexQuote(s) ==
    IF Len(s) = 0 THEN <<SQ, SQ>>
    ELSE IF \A i \in 1..Len(s) : s[i] \in SafeChars THEN s
    ELSE <<SQ>> \o ReplaceQuotes(s) \o <<SQ>>

\* what the command carries between its two double quotes
PreparedBody(resp) == Slice1(ShlexQuote(resp))

PreparedResponse(resp) == <<DQ>> \o PreparedBody(resp) \o <<DQ>>

NoCommand == [sent |-> FALSE, prepared_response |-> <<>>, buddy |-> <<>>]

\* osascript -e 'tell application "Messages" to send <prepared> to buddy "<number>"'
Command(resp, phone) ==
    [sent |-> TRUE, prepared_response |-> PreparedResponse(resp), buddy |-> phone]

\* how the automation command can end: exit status 0, a failure status,
\* 127 from the shell when osascript is not found, or the shell itself
\* cannot be started (OSError)
SendOutcomes == {"exit0", "exit1", "exit127", "oserror"}

\* does __send_message raise?  src runs with check=True and wraps every
\* exception; WingmanGPT runs without check, so only OSError escapes
SendRaises(v, st) ==
    IF v = "src" THEN st # "exit0" ELSE st = "oserror"

----------------------------------------------------------------------------
(* execute: the confirmation test and the branch after the completion call *)

Declines_prefix(a) == IF Len(a) = 0 THEN TRUE ELSE LowerChar(a[1]) # "y"

\* confirm.lower() != "y"
Declines(a) == Lower(a) # <<"y">>

ExecuteNext_noreturn(ask_ok, wants) == IF wants THEN "confirm" ELSE "send"

\* where execute goes after __get_response
ExecuteNext(ask_ok, wants) ==
    IF ~ask_ok THEN "done"
    ELSE IF wants THEN "confirm" ELSE "send"

----------------------------------------------------------------------------
(* main: which branch a run takes once prompts.json has been tried (src)   *)

MainStage_numberfirst(loaded_ok, sm, n) ==
    IF ~loaded_ok THEN "config_error"
    ELSE IF ~n.str THEN "number_required"
    ELSE IF sm THEN "show_modes"
    ELSE "construct"

MainStage(loaded_ok, sm, n) ==
    IF ~loaded_ok THEN "config_error"
    ELSE IF sm THEN "show_modes"
    ELSE IF ~n.str THEN "number_required"
    ELSE "construct"

----------------------------------------------------------------------------
(* The inputs of a run *)

RECURSIVE SeqsUpTo(_, _)
\* every sequence over S of length at most n
SeqsUpTo(S, n) ==
    IF n = 0 THEN {<<>>}
    ELSE LET shorter == SeqsUpTo(S, n - 1)
         IN shorter \cup {Append(s, c) : s \in {x \in shorter : Len(x) = n - 1}, c \in S}

Variants == {"src", "WingmanGPT"}

Sevens(n) == [i \in 1..n |-> "7"]

\* --number: too short, too long, and PhoneLen characters ending in an
\* ASCII digit, a letter or a non-ASCII digit
Numbers ==
    {Str(Sevens(PhoneLen - 1)), Str(Sevens(PhoneLen + 1))}
    \cup {Str(Append(Sevens(PhoneLen - 1), c)) : c \in {"7", "a", "U+0663"}}

Tokens == {None, Str(<<>>), Str(<<"t">>)}
TokenFiles == {NoFile, File(<<>>), File(<<"t", "\n">>)}

Messages == {None, Str(<<>>), Str(<<"h", "i">>)}
MessageFiles == {NoFile, File(<<>>), File(<<"y", "o">>)}

\* --mode: absent, empty, a configured name, a name nothing configures
NoMode == [str |-> FALSE, val |-> ""]
ModeArgs == {NoMode, Str(""), Str("ROMANTIC"), Str("BOGUS")}

Romantic == [name |-> "ROMANTIC", description |-> "loving", modifier |-> <<"r">>]
Romantic2 == [name |-> "ROMANTIC", description |-> "loving again", modifier |-> <<"r", "2">>]
Funny == [name |-> "FUNNY", description |-> "joking", modifier |-> <<"f">>]

\* documents that parse: string prefix and suffix, a list of modes and a
\* default_mode, which nothing forces to name one of the modes
Documents ==
    { [prefix |-> <<"R", "e", ":">>, suffix |-> <<"D", ".">>,
       modes |-> <<Romantic>>, default_mode |-> "ROMANTIC"],
      [prefix |-> <<"R">>, suffix |-> <<>>,
       modes |-> <<Romantic, Funny>>, default_mode |-> "FUNNY"],
      [prefix |-> <<>>, suffix |-> <<".">>,
       modes |-> <<Romantic, Funny, Romantic2>>, default_mode |-> "ROMANTIC"],
      [prefix |-> <<"R">>, suffix |-> <<".">>,
       modes |-> <<Funny>>, default_mode |-> "ANGRY"] }

AnyDocument == CHOOSE d \in Documents : Len(d.modes) = 1 /\ d.default_mode = "ROMANTIC"

\* prompts.json: absent, not JSON, lacking a key, or a document
PromptsFiles ==
    { [exists |-> FALSE, parses |-> FALSE, missing |-> {}, data |-> AnyDocument],
      [exists |-> TRUE, parses |-> FALSE, missing |-> {}, data |-> AnyDocument],
      [exists |-> TRUE, parses |-> TRUE, missing |-> {"description"}, data |-> AnyDocument],
      [exists |-> TRUE, parses |-> TRUE, missing |-> {"default_mode"}, data |-> AnyDocument] }
    \cup { [exists |-> TRUE, parses |-> TRUE, missing |-> {}, data |-> d] : d \in Documents }

\* what chatbot.ask can hand back as the last data["message"]
Raws ==
    { <<>>,
      <<DQ, "h", "e", "y", DQ>>,
      <<DQ, "h", "i", " ", "y", "o", DQ>>,
      <<DQ, "i", "t", SQ, "s", DQ>> }

\* what the operator can type at "Send message? (y/n): "
Answers == SeqsUpTo({"y", "Y", "n"}, MaxAnswerLen) \cup {<<"y", "e", "s">>, <<"Y", "E", "S">>}

Init ==
    /\ variant \in Variants
    /\ show_modes \in (IF variant = "src" THEN BOOLEAN ELSE {FALSE})
    /\ noconfirm \in (IF variant = "src" THEN BOOLEAN ELSE {FALSE})
    /\ confirm \in (IF variant = "src" THEN {FALSE} ELSE BOOLEAN)
    \* click makes --number required in WingmanGPT: main never sees None there
    /\ number \in (IF variant = "src" THEN Numbers \cup {None} ELSE Numbers)
    /\ token \in Tokens
    /\ token_file \in TokenFiles
    /\ message \in Messages
    /\ message_file \in MessageFiles
    /\ mode \in ModeArgs
    /\ prompts_json \in PromptsFiles
    /\ constructed = FALSE
    /\ phone_number = <<>>
    /\ self_token = <<>>
    /\ self_message = <<>>
    /\ wants_to_confirm = FALSE
    /\ prompt_data = NoPromptData
    /\ mode_modification = <<>>
    /\ validated = <<>>
    /\ prompt = <<>>
    /\ response = <<>>
    /\ answer = None
    /\ command = NoCommand
    /\ ask_calls = 0
    /\ input_calls = 0
    /\ send_calls = 0
    /\ send_status = "none"
    /\ out = <<>>
    /\ pc = "main"

args == << variant, number, token, message, mode, noconfirm, confirm, show_modes,
           token_file, message_file, prompts_json >>
fields == << constructed, phone_number, self_token, self_message, wants_to_confirm,
             prompt_data, mode_modification >>
calls == << prompt, response, answer, command, ask_calls, input_calls, send_calls,
            send_status >>

----------------------------------------------------------------------------
(* main *)

\* src loads prompts.json before anything else; WingmanGPT loads it inside
\* __init__, so its main always goes on to construct
Loaded == IF variant = "src" THEN GetPromptData("src", prompts_json) ELSE Ok(NoPromptData)

Stage == IF variant = "src" THEN MainStage(Loaded.ok, show_modes, number) ELSE "construct"

Constructing ==
    Construct(variant, number, noconfirm, confirm, token, token_file, message,
              message_file, mode, Loaded.val, prompts_json)

MainConfigError ==
    /\ pc = "main" /\ Stage = "config_error"
    /\ out' = Append(out, Line("Error occurred", Loaded.err))
    /\ pc' = "done"
    /\ UNCHANGED << args, fields, validated, calls >>

MainShowModes ==
    /\ pc = "main" /\ Stage = "show_modes"
    /\ out' = out \o ShowModesLines(Loaded.val)
    /\ pc' = "done"
    /\ UNCHANGED << args, fields, validated, calls >>

MainNumberRequired ==
    /\ pc = "main" /\ Stage = "number_required"
    /\ out' = Append(out, Line("Phone number is required.", <<>>))
    /\ pc' = "done"
    /\ UNCHANGED << args, fields, validated, calls >>

MainInvalid ==
    /\ pc = "main" /\ Stage = "construct"
    /\ ~Constructing.ok
    /\ validated' = Constructing.validated
    /\ out' = Append(out, Line("Error occurred", Constructing.err))
    /\ pc' = "done"
    /\ UNCHANGED << args, fields, calls >>

MainConstructed ==
    /\ pc = "main" /\ Stage = "construct"
    /\ Constructing.ok
    /\ validated' = Constructing.validated
    /\ constructed' = TRUE
    /\ phone_number' = Constructing.phone_number
    /\ self_token' = Constructing.token
    /\ self_message' = Constructing.message
    /\ wants_to_confirm' = WantsToConfirm(variant, noconfirm, confirm)
    /\ prompt_data' = Constructing.prompt_data
    /\ mode_modification' = Constructing.mode_modification
    /\ pc' = "execute"
    /\ UNCHANGED << args, calls, out >>

----------------------------------------------------------------------------
(* execute *)

\* chatbot.ask raises: print(e), print('Failed to get response ...'), return
GetResponseFail ==
    /\ pc = "execute"
    /\ prompt' = GetPrompt(variant, prompt_data, self_message, mode_modification)
    /\ ask_calls' = ask_calls + 1
    /\ out' = out \o << Line("CompletionError", <<>>),
                        Line("Failed to get response from ChatGPT API", <<>>) >>
    /\ pc' = ExecuteNext(FALSE, wants_to_confirm)
    /\ UNCHANGED << args, fields, validated, response, answer, command, input_calls,
                    send_calls, send_status >>

\* chatbot.ask answers: response = raw[1:-1]; the text is shown when the
\* operator is to confirm
GetResponseOk ==
    /\ pc = "execute"
    /\ \E raw \in Raws :
         /\ response' = Slice1(raw)
         /\ out' = IF ExecuteNext(TRUE, wants_to_confirm) = "confirm"
                   THEN Append(out, Line("Message", Slice1(raw)))
                   ELSE out
    /\ prompt' = GetPrompt(variant, prompt_data, self_message, mode_modification)
    /\ ask_calls' = ask_calls + 1
    /\ pc' = ExecuteNext(TRUE, wants_to_confirm)
    /\ UNCHANGED << args, fields, validated, answer, command, input_calls, send_calls,
                    send_status >>

ConfirmNo ==
    /\ pc = "confirm"
    /\ \E a \in Answers :
         /\ Declines(a)
         /\ answer' = Str(a)
    /\ input_calls' = input_calls + 1
    /\ out' = Append(out, Line("Message not sent.", <<>>))
    /\ pc' = "done"
    /\ UNCHANGED << args, fields, validated, prompt, response, command, ask_calls,
                    send_calls, send_status >>

ConfirmYes ==
    /\ pc = "confirm"
    /\ \E a \in Answers :
         /\ ~Declines(a)
         /\ answer' = Str(a)
    /\ input_calls' = input_calls + 1
    /\ pc' = "send"
    /\ UNCHANGED << args, fields, validated, prompt, response, command, ask_calls,
                    send_calls, send_status, out >>

\* input() raises EOFError when standard input is closed; execute's
\* except clause reports it as a send failure
ConfirmEOF ==
    /\ pc = "confirm"
    /\ input_calls' = input_calls + 1
    /\ out' = Append(out, Line("Failed to send message.", <<"EOFError">>))
    /\ pc' = "done"
    /\ UNCHANGED << args, fields, validated, prompt, response, answer, command,
                    ask_calls, send_calls, send_status >>

\* __send_message returns: print('Message Sent.')
SendOk ==
    /\ pc = "send"
    /\ \E st \in SendOutcomes :
         /\ ~SendRaises(variant, st)
         /\ send_status' = st
    /\ command' = Command(response, phone_number)
    /\ send_calls' = send_calls + 1
    /\ out' = Append(out, Line("Message Sent.", <<>>))
    /\ pc' = "done"
    /\ UNCHANGED << args, fields, validated, prompt, response, answer, ask_calls,
                    input_calls >>

\* __send_message raises: print('Failed to send message. ...')
SendFail ==
    /\ pc = "send"
    /\ \E st \in SendOutcomes :
         /\ SendRaises(variant, st)
         /\ send_status' = st
    /\ command' = Command(response, phone_number)
    /\ send_calls' = send_calls + 1
    /\ out' = Append(out, Line("Failed to send message.", <<>>))
    /\ pc' = "done"
    /\ UNCHANGED << args, fields, validated, prompt, response, answer, ask_calls,
                    input_calls >>

Next ==
    \/ MainConfigError
    \/ MainShowModes
    \/ MainNumberRequired
    \/ MainInvalid
    \/ MainConstructed
    \/ GetResponseFail
    \/ GetResponseOk
    \/ ConfirmNo
    \/ ConfirmYes
    \/ ConfirmEOF
    \/ SendOk
    \/ SendFail

Spec == Init /\ [][Next]_vars

----------------------------------------------------------------------------
(* Vocabulary of the properties *)

Printed(text) == \E i \in 1..Len(out) : out[i].text = text

LastPrinted(text) == Len(out) > 0 /\ out[Len(out)].text = text

Yes == {Str(<<"y">>), Str(<<"Y">>)}

\* prompts.json as the version that runs reads it
Config == GetPromptData(variant, prompts_json)

ConfiguredNames == {prompts_json.data.modes[i].name : i \in 1..Len(prompts_json.data.modes)}

ModeOmitted == ~mode.str \/ mode.val = ""

ModeUnknown == Config.ok /\ ~ModeOmitted /\ mode.val \notin ConfiguredNames

\* the completion call was made and returned a text
Completed == ask_calls = 1 /\ ~Printed("Failed to get response from ChatGPT API")

----------------------------------------------------------------------------
\* C1: when the operator is asked and answers anything but "y" or "Y", the
\* dispatch call is not made and the run ends with "Message not sent.",
\* with neither an error nor "Message Sent." printed.
C1_DeclineNeverSends ==
    (answer.str /\ answer \notin Yes) =>
        /\ wants_to_confirm
        /\ pc = "done"
        /\ send_calls = 0 /\ command = NoCommand
        /\ LastPrinted("Message not sent.")
        /\ ~Printed("Message Sent.")
        /\ ~Printed("Failed to send message.")
        /\ ~Printed("Error occurred")

C1_Witness ==
    /\ answer = Str(<<"y", "e", "s">>)
    /\ pc = "done" /\ send_calls = 0
    /\ LastPrinted("Message not sent.")

\* C2: a run of src with --show-modes validates nothing, makes no
\* completion call, asks nothing and dispatches nothing, whatever the
\* number, token, message, mode and fallback files are; once prompts.json
\* has loaded it ends having printed the header and one line per
\* configured mode, in order, and nothing else.
C2_ShowModesOnly ==
    (variant = "src" /\ show_modes) =>
        /\ pc \in {"main", "done"}
        /\ validated = <<>> /\ ~constructed
        /\ ask_calls = 0 /\ input_calls = 0 /\ send_calls = 0
        /\ (pc = "done" /\ Config.ok) =>
              /\ Len(out) = Len(prompts_json.data.modes) + 1
              /\ out[1] = Line("AVAILABLE MODES:", <<>>)
              /\ \A i \in 1..Len(prompts_json.data.modes) :
                    out[i + 1] = Line("mode", << prompts_json.data.modes[i].name,
                                                 prompts_json.data.modes[i].description >>)

C2_Witness ==
    /\ variant = "src" /\ show_modes /\ pc = "done"
    /\ ~number.str /\ ~token.str /\ ~token_file.exists
    /\ ~message.str /\ ~message_file.exists
    /\ mode = Str("BOGUS")
    /\ Len(out) = 4

\* C3: when the automation command fails (failure status, not found, or
\* not startable) the run ends reporting a send failure, and
\* "Message Sent." is printed only after a dispatch call that succeeded.
C3_SendFailureReported ==
    /\ (send_status \in {"exit1", "exit127", "oserror"}) =>
          /\ pc = "done"
          /\ LastPrinted("Failed to send message.")
          /\ ~Printed("Message Sent.")
    /\ Printed("Message Sent.") => (send_calls = 1 /\ send_status = "exit0")

\* C4: when the completion call fails the run reports it and ends: one
\* completion call, no confirmation prompt, no dispatch.
C4_CompletionFailureTerminal ==
    /\ ask_calls <= 1
    /\ Printed("Failed to get response from ChatGPT API") =>
          /\ pc = "done"
          /\ ask_calls = 1
          /\ input_calls = 0 /\ ~Printed("Message")
          /\ send_calls = 0 /\ command = NoCommand
          /\ LastPrinted("Failed to get response from ChatGPT API")

C4_Witness ==
    /\ Printed("Failed to get response from ChatGPT API")
    /\ wants_to_confirm
    /\ pc = "done"

\* the one line printed is the "Invalid mode" error, and every configured
\* mode name occurs exactly once among the names it lists
ErrorListsEachNameOnce ==
    /\ Len(out) = 1
    /\ out[1].text = "Error occurred"
    /\ Len(out[1].detail) >= 2
    /\ out[1].detail[1] = "Invalid mode"
    /\ out[1].detail[2] = mode.val
    /\ \A name \in ConfiguredNames :
          Cardinality({i \in 3..Len(out[1].detail) : out[1].detail[i] = name}) = 1

\* C5 as stated: every finished run that validates its arguments and was
\* given a mode name that no configured mode has fails validation (no
\* completion call, no dispatch) and reports an error listing every
\* configured mode name exactly once.
C5_Original ==
    (pc = "done" /\ ModeUnknown /\ Len(validated) >= 1) =>
        /\ ~constructed /\ ask_calls = 0 /\ send_calls = 0
        /\ ErrorListsEachNameOnce

\* C5 amended: a run given a mode name that no configured mode has never
\* constructs the object, calls the completion service or dispatches; and
\* when the run reaches mode resolution (number, token and message were
\* accepted) the error reported lists every configured mode name exactly
\* once.
C5_UnknownModeRejected ==
    ModeUnknown =>
        /\ ~constructed /\ ask_calls = 0 /\ send_calls = 0
        /\ pc \in {"main", "done"}
        /\ (Len(validated) = 4) => (pc = "done" /\ ErrorListsEachNameOnce)

C5_Witness ==
    /\ ModeUnknown /\ pc = "done"
    /\ Len(validated) = 4
    /\ Cardinality(ConfiguredNames) = 2
    /\ Len(prompts_json.data.modes) = 3
    /\ Len(out[1].detail) = 4

IsAscii10(n) ==
    /\ n.str
    /\ Len(n.val) = 10
    /\ \A i \in 1..Len(n.val) : n.val[i] \in AsciiDigits

\* C6: phone validation accepts exactly the strings of 10 ASCII digits;
\* any other value is rejected with an error and no object is constructed.
C6_PhoneAsciiOnly ==
    (Len(validated) >= 1) =>
        /\ (Len(validated) >= 2) <=> IsAscii10(number)
        /\ ~IsAscii10(number) =>
              /\ ~constructed
              /\ out = << Line("Error occurred", <<"Invalid phone number">>) >>

\* C7: the prompt is the prefix unchanged, ' Here is the message: "' +
\* message + '".', ' Here is how I want you to modify the message: "' +
\* instruction + '".', and the suffix unchanged, in this order.
C7_PromptConcatenation ==
    (ask_calls = 1) =>
        prompt = prompts_json.data.prefix
                 \o HereIsTheMessage \o self_message \o <<DQ, ".">>
                 \o HereIsHow \o mode_modification \o <<DQ, ".">>
                 \o prompts_json.data.suffix

\* C8: for every prompts.json the loader accepts, a run that reaches mode
\* resolution with the mode omitted resolves it to the modifier of a mode
\* named default_mode.
C8_DefaultModeResolves ==
    (pc # "main" /\ Config.ok /\ ModeOmitted /\ Len(validated) = 4) =>
        /\ constructed
        /\ \E i \in 1..Len(prompts_json.data.modes) :
              /\ prompts_json.data.modes[i].name = prompts_json.data.default_mode
              /\ mode_modification = prompts_json.data.modes[i].modifier

\* C9: the text between the double quotes of the automation command is the
\* escaped completion text, none of its characters dropped.
C9_BodyKeepsEveryCharacter ==
    command.sent =>
        /\ command.prepared_response = <<DQ>> \o ReplaceQuotes(response) \o <<DQ>>
        /\ Len(command.prepared_response) >= Len(response) + 2

\* the run was given the no-confirmation flag (only src has one)
NoConfirmGiven == variant = "src" /\ noconfirm

\* C10: the operator is asked exactly in the runs that require
\* confirmation.  With the no-confirmation flag the text is never shown and
\* input is never read, and a completion that succeeded goes on to the
\* dispatch call; without it every dispatch call follows a prompt answered
\* "y" or "Y".
C10_PromptIffConfirmation ==
    /\ NoConfirmGiven =>
          /\ input_calls = 0 /\ ~Printed("Message") /\ ~answer.str
          /\ Completed => (pc \in {"send", "done"} /\ (pc = "done" => send_calls = 1))
    /\ ~NoConfirmGiven =>
          /\ (send_calls = 1 \/ pc = "send") =>
                (input_calls = 1 /\ Printed("Message") /\ answer \in Yes)
          /\ Completed => Printed("Message")
    /\ (input_calls = 1 \/ pc = "confirm") => (constructed /\ wants_to_confirm)

C10_Witness ==
    /\ NoConfirmGiven
    /\ Completed
    /\ send_calls = 1 /\ input_calls = 0
    /\ pc = "done"

====
